---------------------------- MODULE Spec2Model ----------------------------
(***************************************************************************)
(* The command processor of poinz (commandProcessor.js): processCommand    *)
(* pushes a job on the sequence queue; the queue's job handler runs the    *)
(* seven-stage promise chain                                               *)
(*   validate -> getCommandHandler -> loadRoom -> preConditions -> handle  *)
(*            -> applyEvents -> saveRoomBackToStore                        *)
(* and then calls nextJob and settles the job's promise.                   *)
(*                                                                         *)
(* Every job has a context of its own (the const "context" of the job      *)
(* handler's closure), so ctx, pc and the promise are functions of the job.*)
(* One action is one tick of the promise chain (one .then callback, or one *)
(* answer of the store).                                                   *)
(*                                                                         *)
(* Spec is the command processor; FairSpec is the command processor under  *)
(* the scheduling its chain relies on; ReducerSpec runs the reducers       *)
(* alone: the client's eventReducer and the pipeline's apply stage.        *)
(***************************************************************************)
EXTENDS Integers, Sequences, FiniteSets, TLC

(***************************************************************************)
(* Bounds of the model.                                                    *)
(***************************************************************************)
\* number of processCommand calls
MaxJobs == 2
\* largest reading of the clock (new Date().getTime())
MaxTime == 2

(***************************************************************************)
(* Values.                                                                 *)
(***************************************************************************)
\* JavaScript's undefined, for a missing map key or argument
Undefined == "undefined"

RoomIds == {"r1", "r2"}
Users == {"u1", "u2"}
Usernames == {"a", "b"}

\* A room: an Immutable.Map. A key that is not set reads as Undefined
\* (lastActivity: 0). The keys the handlers of the model use are id, users
\* (userId -> username) and lastActivity.
EmptyMap ==
  [id |-> Undefined, users |-> [u \in Users |-> Undefined], lastActivity |-> 0]

\* A command or event payload: {id, userId, username}, each possibly missing.
Payload(id, userId, username) ==
  [id |-> id, userId |-> userId, username |-> username]

\* No error / an Error object: its name, its message (the concatenated
\* parts) and, for a PreconditionError, the wrapped error's message.
NoError == [name |-> "none", message |-> <<>>]

Err(name, message) == [name |-> name, message |-> message]

(***************************************************************************)
(* The seven stages of the pipeline, as recorded in the history variable   *)
(* ran.                                                                    *)
(***************************************************************************)
AllStages ==
  {"validate", "getCommandHandler", "loadRoom", "preConditions", "handle",
   "applyEvents", "saveRoomBackToStore"}


(***************************************************************************)
(* The handler registries handed to commandProcessorFactory. They are      *)
(* arguments of the factory; the model binds them to a registry that holds *)
(* the setUsername handler of the repository and handlers that take every  *)
(* path of the pipeline.                                                   *)
(*   createRoom        existingRoom not set; declares roomCreated (with    *)
(*                     the command's roomId or, when the command has none, *)
(*                     the id its payload names) and then usernameSet      *)
(*   setUsername       existingRoom, preCondition; declares usernameSet    *)
(*   failAfterDeclare  declares usernameSet and then throws                *)
(*   unknownEvent      declares usernameSet and then an event that has no  *)
(*                     event handler                                       *)
(*   boomReducer       declares usernameSet and then boom, whose event     *)
(*                     handler throws                                      *)
(*   noop              declares nothing                                    *)
(***************************************************************************)
CommandHandlerNames ==
  {"createRoom", "setUsername", "failAfterDeclare", "unknownEvent",
   "boomReducer", "noop"}

\* commandHandlers[name].existingRoom
ExistingRoom(handler) == handler # "createRoom"

\* whether commandHandlers[name].preCondition is defined
HasPreCondition(handler) == handler = "setUsername"

\* a precondition that never throws
SetUsernamePreConditionNever(room, command, userId) == FALSE

\* setUsername.preCondition(room, command, userId): whether it throws
SetUsernamePreConditionThrows(room, command, userId) ==
  userId # command.payload.userId

\* commandHandlers[name].preCondition(room, command, userId): the error it
\* throws, or NoError
PreCondition(handler, room, command, userId) ==
  IF handler = "setUsername" /\ SetUsernamePreConditionThrows(room, command, userId)
  THEN Err("Error", <<"Can only set username for own user!">>)
  ELSE NoError

\* one call room.applyEvent(eventName, eventPayload)
ApplyEventCall(eventName, eventPayload) ==
  [name |-> eventName, payload |-> eventPayload]

\* commandHandlers[name].fn(room, command): the applyEvent calls it makes, in
\* order, and whether it throws after them
Fn(handler, room, command) ==
  CASE handler = "createRoom" ->
         [calls |-> <<ApplyEventCall("roomCreated",
                                     Payload(IF command.roomId # Undefined
                                             THEN command.roomId
                                             ELSE command.payload.id,
                                             Undefined, Undefined)),
                      ApplyEventCall("usernameSet", command.payload)>>,
          throws |-> FALSE]
    [] handler = "setUsername" ->
         [calls |-> <<ApplyEventCall("usernameSet", command.payload)>>,
          throws |-> FALSE]
    [] handler = "failAfterDeclare" ->
         [calls |-> <<ApplyEventCall("usernameSet", command.payload)>>,
          throws |-> TRUE]
    [] handler = "unknownEvent" ->
         [calls |-> <<ApplyEventCall("usernameSet", command.payload),
                      ApplyEventCall("notRegistered", command.payload)>>,
          throws |-> FALSE]
    [] handler = "boomReducer" ->
         [calls |-> <<ApplyEventCall("usernameSet", command.payload),
                      ApplyEventCall("boom", command.payload)>>,
          throws |-> FALSE]
    [] OTHER -> [calls |-> <<>>, throws |-> FALSE]

EventHandlerNames == {"roomCreated", "usernameSet", "boom"}

\* eventHandlers[name](room, payload): the error it throws, or NoError
EventHandlerError(eventName, room, eventPayload) ==
  IF eventName = "boom" THEN Err("Error", <<"boom">>) ELSE NoError

\* a usernameSet handler that returns a new room holding only the users
EventHandlerDropsId(eventName, room, eventPayload) ==
  CASE eventName = "roomCreated" ->
         [room EXCEPT !.id = eventPayload.id,
                      !.users = [u \in Users |-> Undefined]]
    [] eventName = "usernameSet" ->
         IF eventPayload.userId \in Users
         THEN [EmptyMap EXCEPT
                 !.users = [room.users EXCEPT
                              ![eventPayload.userId] = eventPayload.username]]
         ELSE room
    [] OTHER -> room

\* eventHandlers[name](room, payload): the room it returns
EventHandler(eventName, room, eventPayload) ==
  CASE eventName = "roomCreated" ->
         [room EXCEPT !.id = eventPayload.id,
                      !.users = [u \in Users |-> Undefined]]
    [] eventName = "usernameSet" ->
         IF eventPayload.userId \in Users
         THEN [room EXCEPT !.users[eventPayload.userId] = eventPayload.username]
         ELSE room
    [] OTHER -> room

(***************************************************************************)
(* The collaborators required by commandProcessor.js whose files are not   *)
(* in the source tree: the schema validator, the store and the sequence    *)
(* queue. They are modelled from their contracts.                          *)
(***************************************************************************)
\* commandSchemaValidator(cmd): the error it throws, or NoError
CommandSchemaValidator(cmd) ==
  IF cmd.wellFormed THEN NoError
  ELSE Err("ValidationError", <<"Command validation Error during ", cmd.name>>)

\* the keys of the store: the room ids, and Undefined for a room saved
\* without an id
StoreKeys == RoomIds \cup {Undefined}

\* store.getRoomById(roomId): <<room>>, or <<>> when there is none
GetRoomById(st, roomId) == st[roomId]

\* store.saveRoom(room): the store afterwards
SaveRoom(st, room) == [st EXCEPT ![room.id] = <<room>>]

\* queue.push(job): the queue afterwards
Push(q, job) == Append(q, job)

(***************************************************************************)
(* The inputs of processCommand: a command (its id is given when it is     *)
(* submitted) and the acting user. A command names any handler of the      *)
(* registry or none ("unregistered"); wellFormed says whether the schema   *)
(* validator accepts it.                                                   *)
(***************************************************************************)
Command(name, roomId, payload, wellFormed) ==
  [id |-> 0, name |-> name, roomId |-> roomId, payload |-> payload,
   wellFormed |-> wellFormed]

OwnPayload(userId) ==
  Payload(Undefined, userId, IF userId = "u1" THEN "a" ELSE "b")

\* the calls processCommand(command, userId) the model makes
Calls ==
  \* on the room the store holds: each user sets its own name
  {[command |-> Command("setUsername", "r1", OwnPayload(u), TRUE),
    userId |-> u] : u \in Users}
  \cup
  \* every other handler of the registry, and a name without a handler
  {[command |-> Command(n, "r1", OwnPayload("u1"), TRUE), userId |-> "u1"] :
     n \in {"createRoom", "failAfterDeclare", "unknownEvent", "boomReducer",
            "noop", "unregistered"}}
  \cup
  \* on the room the store does not hold: a creation command without roomId,
  \* whose payload names the new room, and a command for an existing room
  {[command |-> Command("createRoom", Undefined, Payload("r2", "u2", "b"), TRUE),
    userId |-> "u2"],
   [command |-> Command("setUsername", "r2", OwnPayload("u2"), TRUE),
    userId |-> "u2"]}
  \cup
  \* a user that sets the name of another user
  {[command |-> Command("setUsername", "r1", OwnPayload("u1"), TRUE),
    userId |-> "u2"]}
  \cup
  \* a command the schema validator refuses
  {[command |-> Command("setUsername", "r1", OwnPayload("u1"), FALSE),
    userId |-> "u1"]}

JobIds == 1 .. MaxJobs

\* the readings new Date().getTime() can give when the last one was t
ClockReadings(t) == {r \in t .. MaxTime : r <= t + 1}

(***************************************************************************)
(* The client's event reducer (client/app/services/eventReducer.js), as    *)
(* its test and the event-application contract describe it: the client     *)
(* state is a map with the keys userId, roomId, users (userId -> user      *)
(* object), stories (story id -> story) and selectedStory. A key of a      *)
(* nested map is <<>> when it is absent and <<object>> when it is set.     *)
(***************************************************************************)
ClientUserIds == {"myUserId", "theNewUser", "someoneElse"}
StoryIds == {"story334"}
ClientRoomIds == {"myRoom", "ourRoom"}

\* the user objects of a client state: absent, {} and {username: 'tester1'}
UserEntries ==
  {<<>>, <<[username |-> Undefined]>>, <<[username |-> "tester1"]>>}

\* the user objects of a payload: absent and {}
PayloadUserEntries == {<<>>, <<[username |-> Undefined]>>}

\* the stories: absent, {} and a story with a title
StoryEntries ==
  {<<>>, <<[title |-> Undefined]>>, <<[title |-> "the new feature x"]>>}

NoUsers == [u \in ClientUserIds |-> <<>>]
NoStories == [i \in StoryIds |-> <<>>]

ClientState(userId, roomId, users, stories, selectedStory) ==
  [userId |-> userId, roomId |-> roomId, users |-> users, stories |-> stories,
   selectedStory |-> selectedStory]

\* the payload of a client event: the keys the reducers read
ClientPayload(userId, users, stories, selectedStory, id, title) ==
  [userId |-> userId, users |-> users, stories |-> stories,
   selectedStory |-> selectedStory, id |-> id, title |-> title]

EmptyPayload ==
  ClientPayload(Undefined, NoUsers, NoStories, Undefined, Undefined, Undefined)

\* the action {type, event: {roomId, payload}} handed to eventReducer
ClientEvent(type, roomId, payload) ==
  [type |-> type, roomId |-> roomId, payload |-> payload]

\* joinedRoom that takes the payload's user objects for the users it lists
EventReducerTakesPayloadUsers(state, event) ==
  LET payload == event.payload
  IN CASE event.type = "storyAdded" ->
            [state EXCEPT !.stories[payload.id] = <<[title |-> payload.title]>>]
       [] event.type = "joinedRoom" ->
            IF state.userId # Undefined
            THEN [state EXCEPT !.users =
                    [u \in ClientUserIds |->
                       IF payload.users[u] # <<>> THEN payload.users[u]
                       ELSE state.users[u]]]
            ELSE [state EXCEPT !.userId = payload.userId,
                               !.selectedStory = payload.selectedStory,
                               !.stories = payload.stories,
                               !.users = payload.users]
       [] event.type = "leftRoom" ->
            [state EXCEPT !.users[payload.userId] = <<>>]
       [] OTHER -> state

\* leftRoom that keeps only the client's own user
EventReducerDropsOthers(state, event) ==
  LET payload == event.payload
  IN CASE event.type = "storyAdded" ->
            [state EXCEPT !.stories[payload.id] = <<[title |-> payload.title]>>]
       [] event.type = "joinedRoom" ->
            IF state.userId # Undefined
            THEN [state EXCEPT !.users[payload.userId] =
                                  payload.users[payload.userId]]
            ELSE [state EXCEPT !.userId = payload.userId,
                               !.selectedStory = payload.selectedStory,
                               !.stories = payload.stories,
                               !.users = payload.users]
       [] event.type = "leftRoom" ->
            [state EXCEPT !.users =
               [u \in ClientUserIds |->
                  IF u = state.userId THEN state.users[u] ELSE <<>>]]
       [] OTHER -> state

\* eventReducer(state, action): the state it returns
\*   roomCreated  leaves the state as it is
\*   storyAdded   sets stories[payload.id]
\*   joinedRoom   when the client has a userId, someone else joined: sets
\*                users[payload.userId] to the payload's user object;
\*                otherwise the client itself joined: takes userId,
\*                selectedStory, stories and users from the payload
\*   leftRoom     deletes users[payload.userId]
EventReducer(state, event) ==
  LET payload == event.payload
  IN CASE event.type = "storyAdded" ->
            [state EXCEPT !.stories[payload.id] = <<[title |-> payload.title]>>]
       [] event.type = "joinedRoom" ->
            IF state.userId # Undefined
            THEN [state EXCEPT !.users[payload.userId] =
                                  payload.users[payload.userId]]
            ELSE [state EXCEPT !.userId = payload.userId,
                               !.selectedStory = payload.selectedStory,
                               !.stories = payload.stories,
                               !.users = payload.users]
       [] event.type = "leftRoom" ->
            [state EXCEPT !.users[payload.userId] = <<>>]
       [] OTHER -> state

\* the client states a run starts from
ClientStarts ==
  {ClientState(userId, roomId, users, stories, Undefined) :
     userId \in {Undefined, "myUserId"}, roomId \in ClientRoomIds,
     users \in [ClientUserIds -> UserEntries],
     stories \in [StoryIds -> StoryEntries]}

\* the events a client in this state is sent: events of its room; the
\* payload of a joinedRoom lists the users of the room and the joining
\* user, each as {}; a client that has a userId is sent the joinedRoom and
\* leftRoom events of the other users, a client without one the joinedRoom
\* event of its own join and the leftRoom events of the users
ClientEvents(state) ==
  {ClientEvent("roomCreated", state.roomId, EmptyPayload)}
  \cup
  {ClientEvent("storyAdded", state.roomId,
               ClientPayload(Undefined, NoUsers, NoStories, Undefined, i,
                             "the new feature x")) : i \in StoryIds}
  \cup
  UNION {
    {ClientEvent("joinedRoom", state.roomId,
                 ClientPayload(u, users,
                               [i \in StoryIds |-> <<[title |-> Undefined]>>],
                               "story334", Undefined, Undefined)) :
       users \in {m \in [ClientUserIds -> PayloadUserEntries] :
                    /\ m[u] # <<>>
                    /\ \A v \in ClientUserIds \ {u} :
                         (m[v] = <<>>) = (state.users[v] = <<>>)}} :
    u \in {v \in ClientUserIds : state.userId = Undefined \/ v # state.userId}}
  \cup
  {ClientEvent("leftRoom", state.roomId,
               ClientPayload(u, NoUsers, NoStories, Undefined, Undefined,
                             Undefined)) :
     u \in {v \in ClientUserIds : v # state.userId}}

\* no client: the run is one of the command processor
NoClientState ==
  ClientState(Undefined, Undefined, NoUsers, NoStories, Undefined)

NoClient ==
  [prev |-> NoClientState,
   event |-> ClientEvent("none", Undefined, EmptyPayload),
   state |-> NoClientState]

\* the rooms the apply stage is tried on: a room of the store, or the empty
\* room loadRoom puts in place of a missing one
Rooms ==
  {[id |-> k, users |-> m, lastActivity |-> t] :
     k \in RoomIds, m \in [Users -> Usernames \cup {Undefined}],
     t \in 0 .. MaxTime}
  \cup {EmptyMap}

(***************************************************************************)
(* State.                                                                  *)
(***************************************************************************)
VARIABLES
  jobs,        \* the jobs pushed so far, in the order of the calls:
               \* job j is jobs[j] = {command, userId}
  queue,       \* the sequence queue: the ids of the waiting jobs
  isHandling,  \* the sequence queue: a job was handed to the job handler
               \* and nextJob was not called since
  pc,          \* per job: the next tick of its promise chain
  ctx,         \* per job: the context of the job handler
  pending,     \* per job: the error its chain is rejected with
  promise,     \* per job: the promise processCommand returned
  store,       \* the store: key -> <<room>> or <<>>
  now,         \* the last reading of the clock
  uuidCount,   \* the uuids generated so far
  ran,         \* history: per job, the stages that were entered, and
               \* "preCondition" / "fn" when the handler's preCondition /
               \* function was invoked, "getRoomById.then" when the store
               \* answered the load
  loaded,      \* history: per job, what store.getRoomById answered
  storeBefore, \* history: per job, the store when its job handler started
  overlapped,  \* history: some job was pushed while an earlier job was
               \* not settled
  signals,     \* history: per job, the calls the end of its chain made, in
               \* order: "nextJob", "resolve", "reject"
  client,      \* the client's reducer: the state before the last event, the
               \* event and the state after it
  applied      \* the apply stage taken alone: the room before, the command
               \* whose events were applied, the events and the room after

vars ==
  <<jobs, queue, isHandling, pc, ctx, pending, promise, store, now,
    uuidCount, ran, loaded, storeBefore, overlapped, signals, client,
    applied>>

\* the variables of the command processor
pipelineVars ==
  <<jobs, queue, isHandling, pc, ctx, pending, promise, store, now,
    uuidCount, ran, loaded, storeBefore, overlapped, signals>>

NoContext ==
  [userId |-> Undefined, handler |-> Undefined, room |-> EmptyMap,
   eventHandlingQueue |-> <<>>, eventsToSend |-> <<>>]

PendingPromise == [state |-> "pending", events |-> <<>>, error |-> NoError]

\* the store at start: room r1 exists, room r2 does not
InitialStore ==
  [k \in StoreKeys |->
     IF k = "r1" THEN <<[EmptyMap EXCEPT !.id = "r1"]>> ELSE <<>>]

\* no trial of the apply stage
NoApplied ==
  [before |-> EmptyMap,
   call |-> [command |-> Command("none", Undefined, OwnPayload("u1"), TRUE),
             userId |-> Undefined],
   events |-> <<>>, after |-> EmptyMap, error |-> NoError]

\* the command processor after commandProcessorFactory
InitPipeline ==
  /\ jobs = <<>>
  /\ queue = <<>>
  /\ isHandling = FALSE
  /\ pc = [j \in JobIds |-> "new"]
  /\ ctx = [j \in JobIds |-> NoContext]
  /\ pending = [j \in JobIds |-> NoError]
  /\ promise = [j \in JobIds |-> PendingPromise]
  /\ store = InitialStore
  /\ now = 1
  /\ uuidCount = 0
  /\ ran = [j \in JobIds |-> {}]
  /\ loaded = [j \in JobIds |-> <<>>]
  /\ storeBefore = [j \in JobIds |-> InitialStore]
  /\ overlapped = FALSE
  /\ signals = [j \in JobIds |-> <<>>]

Init ==
  /\ InitPipeline
  /\ client = NoClient
  /\ applied = NoApplied

\* the command of job j
Cmd(j) == jobs[j].command

(***************************************************************************)
(* processCommand(command, userId): a new promise whose executor pushes    *)
(* the job {command, userId, resolve, reject} on the queue.                *)
(***************************************************************************)
\* processCommand that starts the job handler at once instead of pushing the
\* job on the queue
ProcessCommandNoQueue(call) ==
  /\ Len(jobs) < MaxJobs
  /\ LET j == Len(jobs) + 1
         job == [command |-> [call.command EXCEPT !.id = j],
                 userId |-> call.userId]
         e == CommandSchemaValidator(job.command)
     IN /\ jobs' = Append(jobs, job)
        /\ ctx' = [ctx EXCEPT ![j] = [NoContext EXCEPT !.userId = job.userId]]
        /\ ran' = [ran EXCEPT ![j] = {"validate"}]
        /\ storeBefore' = [storeBefore EXCEPT ![j] = store]
        /\ pending' = [pending EXCEPT ![j] = e]
        /\ pc' = [pc EXCEPT ![j] =
                    IF e = NoError THEN "getCommandHandler" ELSE "catch"]
        /\ overlapped' =
             (overlapped \/ \E i \in 1 .. Len(jobs) :
                              pc[i] \notin {"resolved", "rejected"})
  /\ UNCHANGED <<queue, isHandling, promise, store, now, uuidCount, loaded,
                 signals, client, applied>>

ProcessCommand(call) ==
  /\ Len(jobs) < MaxJobs
  /\ LET j == Len(jobs) + 1
         job == [command |-> [call.command EXCEPT !.id = j],
                 userId |-> call.userId]
     IN /\ jobs' = Append(jobs, job)
        /\ queue' = Push(queue, j)
        /\ pc' = [pc EXCEPT ![j] = "queued"]
        /\ overlapped' =
             (overlapped \/ \E i \in 1 .. Len(jobs) :
                              pc[i] \notin {"resolved", "rejected"})
  /\ UNCHANGED <<isHandling, ctx, pending, promise, store, now, uuidCount,
                 ran, loaded, storeBefore,
                 signals, client, applied>>

(***************************************************************************)
(* The sequence queue hands the job at its head to the job handler when no *)
(* job is being handled. The job handler builds the context and starts the *)
(* chain: validate(command) runs in the same tick.                         *)
(***************************************************************************)
\* the queue's part: take the head, mark the queue busy
QueueInvoke(j) ==
  /\ ~isHandling
  /\ queue # <<>>
  /\ j = Head(queue)
  /\ queue' = Tail(queue)
  /\ isHandling' = TRUE

\* nextJob(err): the queue may hand out the following job
NextJob == isHandling' = FALSE

\* validate that lets every command pass
ValidateAcceptsAll(cmd) == NoError

\* 1. validate(cmd): the error the chain is rejected with, or NoError
Validate(cmd) == CommandSchemaValidator(cmd)

\* the job handler's own part: context = {userId}; validate(command)
JobHandler(j) ==
  /\ pc[j] = "queued"
  /\ ctx' = [ctx EXCEPT ![j] = [NoContext EXCEPT !.userId = jobs[j].userId]]
  /\ ran' = [ran EXCEPT ![j] = {"validate"}]
  /\ storeBefore' = [storeBefore EXCEPT ![j] = store]
  /\ LET e == Validate(Cmd(j))
     IN /\ pending' = [pending EXCEPT ![j] = e]
        /\ pc' = [pc EXCEPT ![j] =
                    IF e = NoError THEN "getCommandHandler" ELSE "catch"]

InvokeJobHandler(j) ==
  /\ QueueInvoke(j)
  /\ JobHandler(j)
  /\ UNCHANGED <<jobs, promise, store, now, uuidCount, loaded, overlapped,
                 signals, client, applied>>

(***************************************************************************)
(* 2. getCommandHandler(ctx, cmd)                                          *)
(***************************************************************************)
\* a lookup that falls back to the handler that does nothing
LookupCommandHandlerOrNoop(name) ==
  IF name \in CommandHandlerNames THEN name ELSE "noop"

\* commandHandlers[cmd.name]
LookupCommandHandler(name) ==
  IF name \in CommandHandlerNames THEN name ELSE Undefined

GetCommandHandler(j) ==
  /\ pc[j] = "getCommandHandler"
  /\ ran' = [ran EXCEPT ![j] = @ \cup {"getCommandHandler"}]
  /\ LET handler == LookupCommandHandler(Cmd(j).name)
     IN IF handler = Undefined
        THEN /\ pending' = [pending EXCEPT ![j] =
                              Err("Error", <<"No handler found for ", Cmd(j).name>>)]
             /\ pc' = [pc EXCEPT ![j] = "catch"]
             /\ ctx' = ctx
        ELSE /\ ctx' = [ctx EXCEPT ![j].handler = handler]
             /\ pc' = [pc EXCEPT ![j] = "loadRoom"]
             /\ pending' = pending
  /\ UNCHANGED <<jobs, queue, isHandling, promise, store, now, uuidCount,
                 loaded, storeBefore, overlapped,
                 signals, client, applied>>

(***************************************************************************)
(* 3. loadRoom(ctx, cmd): store.getRoomById(cmd.roomId) is called; the     *)
(* store answers in a later tick with the room, with nothing, or with an   *)
(* error.                                                                  *)
(***************************************************************************)
\* loadRoom that calls nextJob right after asking the store
LoadRoomNextJob(j) ==
  /\ pc[j] = "loadRoom"
  /\ ran' = [ran EXCEPT ![j] = @ \cup {"loadRoom"}]
  /\ pc' = [pc EXCEPT ![j] = "getRoomById"]
  /\ isHandling' = FALSE
  /\ UNCHANGED <<jobs, queue, ctx, pending, promise, store, now,
                 uuidCount, loaded, storeBefore, overlapped,
                 signals, client, applied>>

LoadRoom(j) ==
  /\ pc[j] = "loadRoom"
  /\ ran' = [ran EXCEPT ![j] = @ \cup {"loadRoom"}]
  /\ pc' = [pc EXCEPT ![j] = "getRoomById"]
  /\ UNCHANGED <<jobs, queue, isHandling, ctx, pending, promise, store, now,
                 uuidCount, loaded, storeBefore, overlapped,
                 signals, client, applied>>

\* the .then callback without the existingRoom check: a missing room is
\* always replaced by an empty one
LoadRoomThenAlwaysFresh(j) ==
  /\ pc[j] = "getRoomById"
  /\ LET room == GetRoomById(store, Cmd(j).roomId)
     IN /\ loaded' = [loaded EXCEPT ![j] = room]
        /\ ran' = [ran EXCEPT ![j] = @ \cup {"getRoomById.then"}]
        /\ ctx' = [ctx EXCEPT ![j].room =
                     IF room # <<>> THEN room[1] ELSE EmptyMap]
        /\ pc' = [pc EXCEPT ![j] = "preConditions"]
  /\ UNCHANGED <<jobs, queue, isHandling, pending, promise, store, now,
                 uuidCount, storeBefore, overlapped,
                 signals, client, applied>>

\* the .then callback of store.getRoomById
LoadRoomThen(j) ==
  /\ pc[j] = "getRoomById"
  /\ LET room == GetRoomById(store, Cmd(j).roomId)
     IN /\ loaded' = [loaded EXCEPT ![j] = room]
        /\ ran' = [ran EXCEPT ![j] = @ \cup {"getRoomById.then"}]
        /\ IF room = <<>> /\ ExistingRoom(ctx[j].handler)
           THEN /\ pending' = [pending EXCEPT ![j] =
                     Err("Error", <<"Command \"", Cmd(j).name,
                                    "\" only want's to get handled for an existing room. (",
                                    Cmd(j).roomId, ")">>)]
                /\ pc' = [pc EXCEPT ![j] = "catch"]
                /\ ctx' = ctx
           ELSE /\ ctx' = [ctx EXCEPT ![j].room =
                             IF room # <<>> THEN room[1] ELSE EmptyMap]
                /\ pc' = [pc EXCEPT ![j] = "preConditions"]
                /\ pending' = pending
  /\ UNCHANGED <<jobs, queue, isHandling, promise, store, now, uuidCount,
                 storeBefore, overlapped,
                 signals, client, applied>>

\* the store rejects the load
LoadRoomRejected(j) ==
  /\ pc[j] = "getRoomById"
  /\ pending' = [pending EXCEPT ![j] = Err("StorageError", <<"getRoomById">>)]
  /\ pc' = [pc EXCEPT ![j] = "catch"]
  /\ UNCHANGED <<jobs, queue, isHandling, ctx, promise, store, now,
                 uuidCount, ran, loaded, storeBefore, overlapped,
                 signals, client, applied>>

(***************************************************************************)
(* 4. preConditions(ctx, cmd)                                              *)
(***************************************************************************)
\* new PreconditionError(err, cmd)
PreconditionError(err, cmd) ==
  Err("PreconditionError",
      <<"Precondition Error during \"", cmd.name, "\": ">> \o err.message)

PreConditions(j) ==
  /\ pc[j] = "preConditions"
  /\ ran' = [ran EXCEPT ![j] = @ \cup {"preConditions"} \cup
               (IF HasPreCondition(ctx[j].handler) THEN {"preCondition"} ELSE {})]
  /\ LET pcError ==
           IF ~HasPreCondition(ctx[j].handler) THEN NoError
           ELSE PreCondition(ctx[j].handler, ctx[j].room, Cmd(j), ctx[j].userId)
     IN IF pcError # NoError
        THEN /\ pending' = [pending EXCEPT ![j] = PreconditionError(pcError, Cmd(j))]
             /\ pc' = [pc EXCEPT ![j] = "catch"]
        ELSE /\ pc' = [pc EXCEPT ![j] = "handle"]
             /\ pending' = pending
  /\ UNCHANGED <<jobs, queue, isHandling, ctx, promise, store, now,
                 uuidCount, loaded, storeBefore, overlapped,
                 signals, client, applied>>

(***************************************************************************)
(* 5. handle(ctx, cmd): the queues are reset, applyEvent is attached to    *)
(* the room and the handler function runs. Each applyEvent call looks up   *)
(* the event handler (an unknown event name throws) and pushes a deferred  *)
(* step on ctx.eventHandlingQueue; no event handler runs here.             *)
(***************************************************************************)
\* the index of the first applyEvent call whose event has no event handler
\* (Len + 1 when there is none)
FirstUnknown(calls) ==
  LET unknown == {i \in 1 .. Len(calls) : calls[i].name \notin EventHandlerNames}
  IN IF unknown = {} THEN Len(calls) + 1
     ELSE CHOOSE i \in unknown : \A k \in unknown : i <= k

\* ctx.eventHandlingQueue after ctx.handler.fn(ctx.room, cmd): the deferred
\* steps, each the event handler's name and the payload it closes over
HandleQueue(handler, room, cmd) ==
  LET calls == Fn(handler, room, cmd).calls
  IN SubSeq(calls, 1, FirstUnknown(calls) - 1)

\* the error ctx.handler.fn(ctx.room, cmd) ends with, or NoError
HandleError(handler, room, cmd) ==
  LET f == Fn(handler, room, cmd)
      k == FirstUnknown(f.calls)
  IN IF k <= Len(f.calls)
     THEN Err("Error", <<"Cannot apply unknown event ", f.calls[k].name>>)
     ELSE IF f.throws THEN Err("Error", <<"handler function failed">>)
     ELSE NoError

\* handle whose applyEvent runs the event handler of the first call at once
HandleEager(j) ==
  /\ pc[j] = "handle"
  /\ ran' = [ran EXCEPT ![j] = @ \cup {"handle", "fn"}]
  /\ LET steps == HandleQueue(ctx[j].handler, ctx[j].room, Cmd(j))
     IN ctx' = [ctx EXCEPT
                  ![j].eventHandlingQueue = steps,
                  ![j].eventsToSend = <<>>,
                  ![j].room = IF steps = <<>> THEN @
                              ELSE EventHandler(steps[1].name, @, steps[1].payload)]
  /\ LET e == HandleError(ctx[j].handler, ctx[j].room, Cmd(j))
     IN /\ pending' = [pending EXCEPT ![j] = e]
        /\ pc' = [pc EXCEPT ![j] = IF e = NoError THEN "applyEvents" ELSE "catch"]
  /\ UNCHANGED <<jobs, queue, isHandling, promise, store, now, uuidCount,
                 loaded, storeBefore, overlapped, signals, client, applied>>

Handle(j) ==
  /\ pc[j] = "handle"
  /\ ran' = [ran EXCEPT ![j] = @ \cup {"handle", "fn"}]
  /\ ctx' = [ctx EXCEPT
               ![j].eventHandlingQueue = HandleQueue(ctx[j].handler, ctx[j].room, Cmd(j)),
               ![j].eventsToSend = <<>>]
  /\ LET e == HandleError(ctx[j].handler, ctx[j].room, Cmd(j))
     IN /\ pending' = [pending EXCEPT ![j] = e]
        /\ pc' = [pc EXCEPT ![j] = IF e = NoError THEN "applyEvents" ELSE "catch"]
  /\ UNCHANGED <<jobs, queue, isHandling, promise, store, now, uuidCount,
                 loaded, storeBefore, overlapped,
                 signals, client, applied>>

(***************************************************************************)
(* 6. applyEvents(ctx): the deferred steps run in the order of the queue,  *)
(* each on the room the one before returned; a step calls the event        *)
(* handler and pushes the event object on ctx.eventsToSend. An event       *)
(* handler that throws ends the loop where it stands.                      *)
(***************************************************************************)
\* an event object whose correlationId is the event's own id
EventObjectCorrelatesItself(id, userId, cmd, eventName, updatedRoom, eventPayload) ==
  [id |-> id, userId |-> userId, correlationId |-> id, name |-> eventName,
   roomId |-> updatedRoom.id, payload |-> eventPayload]

\* an event object whose roomId is the one of the command
EventObjectCommandRoomId(id, userId, cmd, eventName, updatedRoom, eventPayload) ==
  [id |-> id, userId |-> userId, correlationId |-> cmd.id, name |-> eventName,
   roomId |-> cmd.roomId, payload |-> eventPayload]

\* an event object that leaves the username out of the payload
EventObjectNoUsername(id, userId, cmd, eventName, updatedRoom, eventPayload) ==
  [id |-> id, userId |-> userId, correlationId |-> cmd.id, name |-> eventName,
   roomId |-> updatedRoom.id,
   payload |-> [eventPayload EXCEPT !.username = Undefined]]

\* the event object a deferred step builds
EventObject(id, userId, cmd, eventName, updatedRoom, eventPayload) ==
  [id |-> id, userId |-> userId, correlationId |-> cmd.id, name |-> eventName,
   roomId |-> updatedRoom.id, payload |-> eventPayload]

RECURSIVE ForEachEvtHandlerOnLoaded(_, _, _, _, _, _, _)
\* a loop that hands every step the room the loop started from instead of
\* the room the step before returned
ForEachEvtHandlerOnLoaded(steps, first, room, eventsToSend, uuids, userId, cmd) ==
  IF steps = <<>>
  THEN [room |-> room, eventsToSend |-> eventsToSend, uuids |-> uuids,
        error |-> NoError]
  ELSE LET step == Head(steps)
           e == EventHandlerError(step.name, first, step.payload)
           updatedRoom == EventHandler(step.name, first, step.payload)
       IN IF e # NoError
          THEN [room |-> room, eventsToSend |-> eventsToSend, uuids |-> uuids,
                error |-> e]
          ELSE ForEachEvtHandlerOnLoaded(
                 Tail(steps), first, updatedRoom,
                 Append(eventsToSend,
                        EventObject(uuids + 1, userId, cmd, step.name,
                                    updatedRoom, step.payload)),
                 uuids + 1, userId, cmd)

ForEachEvtHandlerUnthreaded(steps, room, eventsToSend, uuids, userId, cmd) ==
  ForEachEvtHandlerOnLoaded(steps, room, room, eventsToSend, uuids, userId, cmd)

RECURSIVE ForEachEvtHandler(_, _, _, _, _, _)
\* ctx.eventHandlingQueue.forEach(evtHandler => ctx.room = evtHandler(ctx.room))
\* from the room, the events sent and the uuids used so far
ForEachEvtHandler(steps, room, eventsToSend, uuids, userId, cmd) ==
  IF steps = <<>>
  THEN [room |-> room, eventsToSend |-> eventsToSend, uuids |-> uuids,
        error |-> NoError]
  ELSE LET step == Head(steps)
           e == EventHandlerError(step.name, room, step.payload)
           updatedRoom == EventHandler(step.name, room, step.payload)
       IN IF e # NoError
          THEN [room |-> room, eventsToSend |-> eventsToSend, uuids |-> uuids,
                error |-> e]
          ELSE ForEachEvtHandler(
                 Tail(steps), updatedRoom,
                 Append(eventsToSend,
                        EventObject(uuids + 1, userId, cmd, step.name,
                                    updatedRoom, step.payload)),
                 uuids + 1, userId, cmd)

\* applyEvents that saves the room to the store after the steps that ran
ApplyEventsWriteThrough(j) ==
  /\ pc[j] = "applyEvents"
  /\ ran' = [ran EXCEPT ![j] = @ \cup {"applyEvents"}]
  /\ LET r == ForEachEvtHandler(ctx[j].eventHandlingQueue, ctx[j].room,
                                ctx[j].eventsToSend, uuidCount, ctx[j].userId,
                                Cmd(j))
     IN /\ ctx' = [ctx EXCEPT ![j].room = r.room,
                              ![j].eventsToSend = r.eventsToSend]
        /\ uuidCount' = r.uuids
        /\ pending' = [pending EXCEPT ![j] = r.error]
        /\ pc' = [pc EXCEPT ![j] =
                    IF r.error = NoError THEN "saveRoomBackToStore" ELSE "catch"]
        /\ store' = IF r.eventsToSend # <<>> THEN SaveRoom(store, r.room)
                    ELSE store
  /\ UNCHANGED <<jobs, queue, isHandling, promise, now, loaded,
                 storeBefore, overlapped,
                 signals, client, applied>>

ApplyEvents(j) ==
  /\ pc[j] = "applyEvents"
  /\ ran' = [ran EXCEPT ![j] = @ \cup {"applyEvents"}]
  /\ LET r == ForEachEvtHandler(ctx[j].eventHandlingQueue, ctx[j].room,
                                ctx[j].eventsToSend, uuidCount, ctx[j].userId,
                                Cmd(j))
     IN /\ ctx' = [ctx EXCEPT ![j].room = r.room,
                              ![j].eventsToSend = r.eventsToSend]
        /\ uuidCount' = r.uuids
        /\ pending' = [pending EXCEPT ![j] = r.error]
        /\ pc' = [pc EXCEPT ![j] =
                    IF r.error = NoError THEN "saveRoomBackToStore" ELSE "catch"]
  /\ UNCHANGED <<jobs, queue, isHandling, promise, store, now, loaded,
                 storeBefore, overlapped,
                 signals, client, applied>>

(***************************************************************************)
(* 7. saveRoomBackToStore(ctx): lastActivity is stamped and                *)
(* store.saveRoom(ctx.room) is called; the store writes and acknowledges   *)
(* in a later tick, or rejects.                                            *)
(***************************************************************************)
\* saveRoomBackToStore that calls nextJob without waiting for the store
SaveRoomBackToStoreNextJob(j) ==
  /\ pc[j] = "saveRoomBackToStore"
  /\ ran' = [ran EXCEPT ![j] = @ \cup {"saveRoomBackToStore"}]
  /\ \E t \in ClockReadings(now) :
       /\ now' = t
       /\ ctx' = [ctx EXCEPT ![j].room.lastActivity = t]
  /\ pc' = [pc EXCEPT ![j] = "saveRoom"]
  /\ isHandling' = FALSE
  /\ UNCHANGED <<jobs, queue, pending, promise, store, uuidCount,
                 loaded, storeBefore, overlapped,
                 signals, client, applied>>

\* saveRoomBackToStore that stamps lastActivity only when events were applied
SaveRoomBackToStoreIfEvents(j) ==
  /\ pc[j] = "saveRoomBackToStore"
  /\ ran' = [ran EXCEPT ![j] = @ \cup {"saveRoomBackToStore"}]
  /\ \E t \in ClockReadings(now) :
       /\ now' = t
       /\ ctx' = IF ctx[j].eventsToSend = <<>> THEN ctx
                 ELSE [ctx EXCEPT ![j].room.lastActivity = t]
  /\ pc' = [pc EXCEPT ![j] = "saveRoom"]
  /\ UNCHANGED <<jobs, queue, isHandling, pending, promise, store, uuidCount,
                 loaded, storeBefore, overlapped, signals, client, applied>>

SaveRoomBackToStore(j) ==
  /\ pc[j] = "saveRoomBackToStore"
  /\ ran' = [ran EXCEPT ![j] = @ \cup {"saveRoomBackToStore"}]
  /\ \E t \in ClockReadings(now) :
       /\ now' = t
       /\ ctx' = [ctx EXCEPT ![j].room.lastActivity = t]
  /\ pc' = [pc EXCEPT ![j] = "saveRoom"]
  /\ UNCHANGED <<jobs, queue, isHandling, pending, promise, store, uuidCount,
                 loaded, storeBefore, overlapped,
                 signals, client, applied>>

\* the store writes the room and resolves the promise of saveRoom
SaveRoomAck(j) ==
  /\ pc[j] = "saveRoom"
  /\ store' = SaveRoom(store, ctx[j].room)
  /\ pc' = [pc EXCEPT ![j] = "then"]
  /\ UNCHANGED <<jobs, queue, isHandling, ctx, pending, promise, now,
                 uuidCount, ran, loaded, storeBefore, overlapped,
                 signals, client, applied>>

\* the store rejects the save and writes nothing
SaveRoomRejected(j) ==
  /\ pc[j] = "saveRoom"
  /\ pending' = [pending EXCEPT ![j] = Err("StorageError", <<"saveRoom">>)]
  /\ pc' = [pc EXCEPT ![j] = "catch"]
  /\ UNCHANGED <<jobs, queue, isHandling, ctx, promise, store, now,
                 uuidCount, ran, loaded, storeBefore, overlapped,
                 signals, client, applied>>

(***************************************************************************)
(* The end of the chain: nextJob() and job.resolve(context.eventsToSend),  *)
(* or nextJob(err) and job.reject(err).                                    *)
(***************************************************************************)
\* a .then callback that resolves the job and does not call nextJob
ThenNoNextJob(j) ==
  /\ pc[j] = "then"
  /\ promise' = [promise EXCEPT ![j] =
                   [state |-> "resolved", events |-> ctx[j].eventsToSend,
                    error |-> NoError]]
  /\ signals' = [signals EXCEPT ![j] = @ \o <<"resolve">>]
  /\ pc' = [pc EXCEPT ![j] = "resolved"]
  /\ UNCHANGED <<jobs, queue, isHandling, ctx, pending, store, now, uuidCount,
                 ran, loaded, storeBefore, overlapped, client, applied>>

\* a .then callback that resolves the job before it calls nextJob
ThenResolveFirst(j) ==
  /\ pc[j] = "then"
  /\ NextJob
  /\ promise' = [promise EXCEPT ![j] =
                   [state |-> "resolved", events |-> ctx[j].eventsToSend,
                    error |-> NoError]]
  /\ signals' = [signals EXCEPT ![j] = @ \o <<"resolve", "nextJob">>]
  /\ pc' = [pc EXCEPT ![j] = "resolved"]
  /\ UNCHANGED <<jobs, queue, ctx, pending, store, now, uuidCount, ran,
                 loaded, storeBefore, overlapped, client, applied>>

Then(j) ==
  /\ pc[j] = "then"
  /\ NextJob
  /\ promise' = [promise EXCEPT ![j] =
                   [state |-> "resolved", events |-> ctx[j].eventsToSend,
                    error |-> NoError]]
  /\ signals' = [signals EXCEPT ![j] = @ \o <<"nextJob", "resolve">>]
  /\ pc' = [pc EXCEPT ![j] = "resolved"]
  /\ UNCHANGED <<jobs, queue, ctx, pending, store, now, uuidCount, ran,
                 loaded, storeBefore, overlapped,
                 client, applied>>

\* a catch callback that rejects the job and does not call nextJob
CatchNoNextJob(j) ==
  /\ pc[j] = "catch"
  /\ promise' = [promise EXCEPT ![j] =
                   [state |-> "rejected", events |-> <<>>, error |-> pending[j]]]
  /\ signals' = [signals EXCEPT ![j] = @ \o <<"reject">>]
  /\ pc' = [pc EXCEPT ![j] = "rejected"]
  /\ UNCHANGED <<jobs, queue, isHandling, ctx, pending, store, now, uuidCount,
                 ran, loaded, storeBefore, overlapped,
                 client, applied>>

Catch(j) ==
  /\ pc[j] = "catch"
  /\ NextJob
  /\ promise' = [promise EXCEPT ![j] =
                   [state |-> "rejected", events |-> <<>>, error |-> pending[j]]]
  /\ signals' = [signals EXCEPT ![j] = @ \o <<"nextJob", "reject">>]
  /\ pc' = [pc EXCEPT ![j] = "rejected"]
  /\ UNCHANGED <<jobs, queue, ctx, pending, store, now, uuidCount, ran,
                 loaded, storeBefore, overlapped,
                 client, applied>>

Next ==
  \/ \E call \in Calls : ProcessCommand(call)
  \/ \E j \in JobIds : InvokeJobHandler(j)
  \/ \E j \in JobIds : GetCommandHandler(j)
  \/ \E j \in JobIds : LoadRoom(j)
  \/ \E j \in JobIds : LoadRoomThen(j)
  \/ \E j \in JobIds : LoadRoomRejected(j)
  \/ \E j \in JobIds : PreConditions(j)
  \/ \E j \in JobIds : Handle(j)
  \/ \E j \in JobIds : ApplyEvents(j)
  \/ \E j \in JobIds : SaveRoomBackToStore(j)
  \/ \E j \in JobIds : SaveRoomAck(j)
  \/ \E j \in JobIds : SaveRoomRejected(j)
  \/ \E j \in JobIds : Then(j)
  \/ \E j \in JobIds : Catch(j)

Spec == Init /\ [][Next]_vars

(***************************************************************************)
(* The reducers taken alone. A run starts from a client state and applies  *)
(* events to it with the client's reducer, or it has no client and tries   *)
(* the pipeline's apply stage (the deferred steps of handle, run by         *)
(* applyEvents) on a room and a command that loads this room.              *)
(***************************************************************************)
\* eventReducer(state, action) on the client's state
ClientApply(event) ==
  /\ client # NoClient
  /\ event \in ClientEvents(client.state)
  /\ client' = [prev |-> client.state, event |-> event,
                state |-> EventReducer(client.state, event)]
  /\ UNCHANGED <<pipelineVars, applied>>

\* the events of any client state
AllClientEvents == UNION {ClientEvents(state) : state \in ClientStarts}

\* handle and applyEvents on room for the command of call: the deferred
\* steps the handler function queues, run in order
ApplyStage(room, call) ==
  /\ client = NoClient
  /\ LET cmd == call.command
         handler == LookupCommandHandler(cmd.name)
     IN /\ handler # Undefined
        /\ IF room.id = Undefined THEN ~ExistingRoom(handler)
           ELSE cmd.roomId = room.id
        /\ HandleError(handler, room, cmd) = NoError
        /\ LET r == ForEachEvtHandler(HandleQueue(handler, room, cmd), room,
                                      <<>>, 0, call.userId, cmd)
           IN applied' = [before |-> room, call |-> call,
                          events |-> r.eventsToSend, after |-> r.room,
                          error |-> r.error]
  /\ UNCHANGED <<pipelineVars, client>>

ReducerInit ==
  /\ InitPipeline
  /\ client \in {[prev |-> state, event |-> NoClient.event, state |-> state] :
                   state \in ClientStarts} \cup {NoClient}
  /\ applied = NoApplied

ReducerNext ==
  \/ \E event \in AllClientEvents : ClientApply(event)
  \/ \E room \in Rooms, call \in Calls : ApplyStage(room, call)

ReducerSpec == ReducerInit /\ [][ReducerNext]_vars

(***************************************************************************)
(* The command processor under the scheduling the chain relies on: a       *)
(* callback of the chain that is ready runs, the queue hands out its head  *)
(* when it is free, and the store answers every getRoomById and saveRoom,  *)
(* with a result or with an error. processCommand is called when the       *)
(* caller wants, or never.                                                 *)
(***************************************************************************)
ChainStep ==
  \E j \in JobIds :
    \/ InvokeJobHandler(j)
    \/ GetCommandHandler(j)
    \/ LoadRoom(j)
    \/ LoadRoomThen(j)
    \/ LoadRoomRejected(j)
    \/ PreConditions(j)
    \/ Handle(j)
    \/ ApplyEvents(j)
    \/ SaveRoomBackToStore(j)
    \/ SaveRoomAck(j)
    \/ SaveRoomRejected(j)
    \/ Then(j)
    \/ Catch(j)

\* one call for every way the chain can end: success, and a failure in
\* validate, getCommandHandler, loadRoom, preConditions, handle and
\* applyEvents (the store can reject the load and the save of any of them)
LiveCalls ==
  {call \in Calls :
     \/ call.command.name \in {"unregistered", "unknownEvent", "boomReducer"}
     \/ call.command.name = "setUsername" /\ call.command.roomId = "r2"
     \/ call.command.name = "setUsername" /\ call.command.roomId = "r1"
          /\ call.command.payload.userId = "u1"}

FairNext ==
  \/ \E call \in LiveCalls : ProcessCommand(call)
  \/ ChainStep

FairSpec == Init /\ [][FairNext]_vars /\ WF_vars(ChainStep)

(***************************************************************************)
(* Vocabulary of the properties.                                           *)
(***************************************************************************)
\* job j was pushed
Pushed(j) == j <= Len(jobs)

\* job j is between the start of its validate stage and its call of nextJob
InFlight(j) ==
  pc[j] \in {"getCommandHandler", "loadRoom", "getRoomById", "preConditions",
             "handle", "applyEvents", "saveRoomBackToStore", "saveRoom",
             "then", "catch"}

\* the promise of job j is settled
Settled(j) == pc[j] \in {"resolved", "rejected"}

\* the job handler was invoked for job j
Started(j) == InFlight(j) \/ Settled(j)

\* the chain of job j ended with success / with an error
Succeeded(j) == pc[j] \in {"then", "resolved"}

Failed(j) == pc[j] \in {"catch", "rejected"}

\* the calls of job.resolve and job.reject made for job j, in order
SettleCalls(j) ==
  SelectSeq(signals[j], LAMBDA c : c \in {"resolve", "reject"})

\* the calls of nextJob made for job j
NextJobCalls(j) == SelectSeq(signals[j], LAMBDA c : c = "nextJob")

\* no job pushed after j has started
NoLaterJobStarted(j) == \A k \in JobIds : k > j => ~Started(k)

\* the room the pipeline of job j went on with after the load
LoadedRoom(j) == IF loaded[j] = <<>> THEN EmptyMap ELSE loaded[j][1]

\* a room without its time stamp
Unstamped(room) == [room EXCEPT !.lastActivity = 0]

RECURSIVE ApplyInOrder(_, _)
\* the events (name, payload) applied to a room one after the other, the
\* first one first, each to the result of the one before
ApplyInOrder(events, room) ==
  IF events = <<>> THEN room
  ELSE ApplyInOrder(Tail(events),
                    EventHandler(events[1].name, room, events[1].payload))

\* the applyEvent calls the handler function of job j makes
Declared(j) == Fn(ctx[j].handler, LoadedRoom(j), Cmd(j)).calls

\* the room the store holds under key k after the jobs before b: the room
\* saved by the last job before b that saved under k, else the initial one
SavedBefore(b, k) ==
  LET writers == {a \in 1 .. b - 1 : Succeeded(a) /\ ctx[a].room.id = k}
  IN IF writers = {} THEN InitialStore[k]
     ELSE <<ctx[CHOOSE a \in writers : \A w \in writers : w <= a].room>>

MissingRoomError(cmd) ==
  Err("Error", <<"Command \"", cmd.name,
                 "\" only want's to get handled for an existing room. (",
                 cmd.roomId, ")">>)

(***************************************************************************)
(* C1. No lost update. What the load of a job B reads is what the last     *)
(* successful job before B on that room saved (the initial room when there *)
(* is none; a failed job A leaves what was there before A), never a        *)
(* snapshot that an earlier job loaded too and saves later. The room B     *)
(* saves is the events of B applied, in order, to that room, and the store *)
(* always holds, under every key, what the last successful job saved.      *)
(***************************************************************************)
NoLostUpdate ==
  /\ \A b \in JobIds :
       "getRoomById.then" \in ran[b] => loaded[b] = SavedBefore(b, Cmd(b).roomId)
  /\ \A b \in JobIds :
       Succeeded(b) =>
         Unstamped(ctx[b].room) =
           Unstamped(ApplyInOrder(promise[b].events \o
                                    (IF pc[b] = "then" THEN ctx[b].eventsToSend
                                     ELSE <<>>),
                                  LoadedRoom(b)))
  /\ \A k \in RoomIds : store[k] = SavedBefore(MaxJobs + 1, k)

\* two jobs A and B both succeeded on room r1, B was pushed while A was not
\* settled,
\* and the room in the store has the name A set and the name B set
NoLostUpdateWitness ==
  /\ Len(jobs) = 2 /\ overlapped
  /\ pc[1] = "resolved" /\ pc[2] = "resolved"
  /\ Cmd(1).roomId = "r1" /\ Cmd(2).roomId = "r1"
  /\ store["r1"] # <<>>
  /\ store["r1"][1].users = [u \in Users |-> IF u = "u1" THEN "a" ELSE "b"]

(***************************************************************************)
(* C2. Mutual exclusion of pipeline runs: at most one job is between the   *)
(* start of its validate stage and its call of nextJob, whatever rooms the *)
(* jobs target.                                                            *)
(***************************************************************************)
MutualExclusion == Cardinality({j \in JobIds : InFlight(j)}) <= 1

\* a job waits for the store to save while a job for another room waits in
\* the queue
MutualExclusionWitness ==
  \E a, b \in JobIds :
    /\ pc[a] = "saveRoom" /\ pc[b] = "queued"
    /\ Cmd(a).roomId # Cmd(b).roomId

(***************************************************************************)
(* C3. Strict FIFO: when a job B has started, every job pushed before B    *)
(* has run its chain to the end (nextJob called, promise settled); so jobs *)
(* start in the order of their processCommand calls, and no stage of B     *)
(* runs before the last stage of A, the store's answers included.          *)
(***************************************************************************)
StrictFifo ==
  \A a, b \in JobIds : a < b /\ Started(b) => Settled(a)

\* B was pushed while A was not settled, A went through the load and the
\* save of the store, and B has started
StrictFifoWitness ==
  /\ Len(jobs) = 2 /\ overlapped
  /\ {"getRoomById.then", "saveRoomBackToStore"} \subseteq ran[1]
  /\ InFlight(2)

(***************************************************************************)
(* C4. A failing job does not poison the queue. The step that ends a       *)
(* failed job (the catch callback) leaves the queue free to hand out the   *)
(* next job, leaves the waiting jobs and every other job as they are, and  *)
(* leaves the store as it was when the failed job started: what the next   *)
(* jobs read is what they would read had the job never been submitted      *)
(* (the uuids and clock readings they draw apart).                         *)
(***************************************************************************)
FailureDoesNotPoison ==
  [][\A j \in JobIds :
       pc[j] = "catch" /\ pc'[j] = "rejected" =>
         /\ isHandling' = FALSE
         /\ queue' = queue
         /\ store' = storeBefore[j]
         /\ \A k \in JobIds \ {j} : pc'[k] = pc[k] /\ ctx'[k] = ctx[k]]_vars

\* the first job failed at one of the stages after the load, the second,
\* pushed while the first was not settled, ran every stage and resolved
FailureDoesNotPoisonWitness ==
  /\ Len(jobs) = 2 /\ overlapped
  /\ pc[1] = "rejected" /\ "getRoomById.then" \in ran[1]
  /\ pc[2] = "resolved" /\ AllStages \subseteq ran[2]

(***************************************************************************)
(* C5. No partial success. While no later job has started: a job whose     *)
(* chain succeeded ran all seven stages, its promise resolves, and the     *)
(* store holds, under the room's id, the loaded room with every declared   *)
(* event applied (and other keys as before); a job whose chain failed      *)
(* rejects and left the store, for every room, as it was when the job      *)
(* started, also when an event handler threw after earlier ones ran and    *)
(* when the handler function threw after declaring events.                 *)
(***************************************************************************)
NoPartialSuccess ==
  \A j \in JobIds :
    NoLaterJobStarted(j) =>
      /\ Succeeded(j) =>
           /\ AllStages \subseteq ran[j]
           /\ store[ctx[j].room.id] = <<ctx[j].room>>
           /\ Unstamped(ctx[j].room) =
                Unstamped(ApplyInOrder(Declared(j), LoadedRoom(j)))
           /\ \A k \in StoreKeys \ {ctx[j].room.id} : store[k] = storeBefore[j][k]
           /\ pc[j] = "resolved" => promise[j].state = "resolved"
      /\ Failed(j) =>
           /\ store = storeBefore[j]
           /\ pc[j] = "rejected" => promise[j].state = "rejected"

\* a job was rejected because an event handler threw after an earlier event
\* handler of the same command had run
NoPartialSuccessWitness ==
  \E j \in JobIds :
    /\ pc[j] = "rejected"
    /\ "applyEvents" \in ran[j]
    /\ ctx[j].eventsToSend # <<>>
    /\ ctx[j].room # LoadedRoom(j)

(***************************************************************************)
(* C6. A command that fails schema validation: its job enters no stage     *)
(* after validate (no handler lookup, no load, no save), its chain goes    *)
(* straight to the catch callback, and its promise is rejected with the    *)
(* validator's error.                                                      *)
(***************************************************************************)
InvalidCommandRejected ==
  \A j \in JobIds :
    Pushed(j) /\ CommandSchemaValidator(Cmd(j)) # NoError =>
      /\ pc[j] \in {"queued", "catch", "rejected"}
      /\ ran[j] \subseteq {"validate"}
      /\ ctx[j].handler = Undefined
      /\ loaded[j] = <<>>
      /\ Started(j) => pending[j] = CommandSchemaValidator(Cmd(j))
      /\ Settled(j) =>
           /\ promise[j].state = "rejected"
           /\ promise[j].error = CommandSchemaValidator(Cmd(j))
      /\ Started(j) /\ NoLaterJobStarted(j) => store = storeBefore[j]

\* a command the validator refuses was rejected with a ValidationError
InvalidCommandRejectedWitness ==
  \E j \in JobIds :
    /\ Pushed(j) /\ ~Cmd(j).wellFormed
    /\ promise[j].state = "rejected"
    /\ promise[j].error.name = "ValidationError"

MissingRoom ==
  \A j \in JobIds :
    "getRoomById.then" \in ran[j] /\ loaded[j] = <<>> =>
      IF ExistingRoom(ctx[j].handler)
      THEN /\ Failed(j)
           /\ pending[j] = MissingRoomError(Cmd(j))
           /\ ran[j] = {"validate", "getCommandHandler", "loadRoom",
                        "getRoomById.then"}
           /\ pc[j] = "rejected" =>
                promise[j].state = "rejected" /\ promise[j].error = pending[j]
           /\ NoLaterJobStarted(j) => store = storeBefore[j]
      ELSE /\ pending[j] # MissingRoomError(Cmd(j))
           /\ pc[j] \in {"preConditions", "handle"} => ctx[j].room = EmptyMap
           /\ pc[j] = "preConditions" \/ "preConditions" \in ran[j]
           /\ Succeeded(j) =>
                Unstamped(ctx[j].room) =
                  Unstamped(ApplyInOrder(Declared(j), EmptyMap))

\* one job was rejected for the room that is missing, and a job whose
\* handler does not ask for an existing room created that room
MissingRoomWitness ==
  /\ pc[1] = "rejected" /\ loaded[1] = <<>>
  /\ promise[1].error = MissingRoomError(Cmd(1))
  /\ pc[2] = "resolved" /\ loaded[2] = <<>> /\ "getRoomById.then" \in ran[2]
  /\ store["r2"] # <<>>

(***************************************************************************)
(* C9. When the preCondition of a handler throws, the promise is rejected  *)
(* with a PreconditionError whose message names the command and carries    *)
(* the message thrown, the handler function is not invoked, no event is    *)
(* declared or produced, and the store is as it was when the job started.  *)
(* The preCondition of setUsername throws exactly when the acting userId   *)
(* differs from command.payload.userId.                                    *)
(***************************************************************************)
PreconditionFailure ==
  \A j \in JobIds :
    /\ pending[j].name = "PreconditionError" =>
         /\ Failed(j)
         /\ pending[j].message =
              <<"Precondition Error during \"", Cmd(j).name, "\": ",
                "Can only set username for own user!">>
         /\ ran[j] \cap {"handle", "fn", "applyEvents", "saveRoomBackToStore"} = {}
         /\ ctx[j].eventHandlingQueue = <<>> /\ ctx[j].eventsToSend = <<>>
         /\ ctx[j].room = LoadedRoom(j)
         /\ pc[j] = "rejected" =>
              /\ promise[j].state = "rejected"
              /\ promise[j].error = pending[j]
              /\ promise[j].events = <<>>
         /\ NoLaterJobStarted(j) => store = storeBefore[j]
    /\ "preConditions" \in ran[j] /\ ctx[j].handler = "setUsername" =>
         (pending[j].name = "PreconditionError"
            <=> jobs[j].userId # Cmd(j).payload.userId)

\* setUsername for another user was rejected with a PreconditionError
PreconditionFailureWitness ==
  \E j \in JobIds :
    /\ pc[j] = "rejected"
    /\ promise[j].error.name = "PreconditionError"
    /\ Cmd(j).name = "setUsername"
    /\ jobs[j].userId # Cmd(j).payload.userId

(***************************************************************************)
(* C10. The deferred steps of one command run in the order of the          *)
(* applyEvent calls and thread the room: the first event handler gets the  *)
(* room that was loaded (or the new empty one), each next one the room the *)
(* one before returned, and the room that is saved is the room the last    *)
(* one returned with lastActivity set to the clock's reading.              *)
(***************************************************************************)
ReducersInOrder ==
  \A j \in JobIds :
    /\ pc[j] = "saveRoomBackToStore" =>
         ctx[j].room = ApplyInOrder(Declared(j), LoadedRoom(j))
    /\ pc[j] = "saveRoom" \/ Succeeded(j) =>
         /\ ctx[j].room.lastActivity \in 1 .. now
         /\ ctx[j].room =
              [ApplyInOrder(Declared(j), LoadedRoom(j))
                 EXCEPT !.lastActivity = ctx[j].room.lastActivity]
    /\ Succeeded(j) /\ NoLaterJobStarted(j) =>
         store[ctx[j].room.id] = <<ctx[j].room>>
    /\ Succeeded(j) /\ Len(Declared(j)) = 2 =>
         Unstamped(ctx[j].room) =
           Unstamped(EventHandler(Declared(j)[2].name,
                                  EventHandler(Declared(j)[1].name,
                                               LoadedRoom(j),
                                               Declared(j)[1].payload),
                                  Declared(j)[2].payload))

\* a command with two events, the second of which changes what the first
\* returned, was applied to a room with a user name and saved
ReducersInOrderWitness ==
  \E j \in JobIds :
    /\ pc[j] = "resolved"
    /\ Len(promise[j].events) = 2
    /\ LoadedRoom(j).users # EmptyMap.users
    /\ ctx[j].room.users # EmptyMap.users
    /\ ctx[j].room.users # LoadedRoom(j).users
    /\ store[ctx[j].room.id] = <<ctx[j].room>>

(***************************************************************************)
(* C11. On full success the promise is resolved with one event object per  *)
(* applyEvent call of the handler function, in the order of the calls,     *)
(* each with the name and the payload of its call, the userId handed to    *)
(* processCommand and correlationId = command.id. The promise is resolved  *)
(* only after the store acknowledged saveRoom: the promise is pending      *)
(* until the chain has passed the acknowledgement, and from the            *)
(* acknowledgement until a later job starts the store holds the room that  *)
(* has all these events applied.                                           *)
(***************************************************************************)
ResolvedWithDeclaredEvents ==
  \A j \in JobIds :
    /\ promise[j].state = "resolved" =>
         LET events == promise[j].events
             calls == Declared(j)
         IN /\ pc[j] = "resolved"
            /\ Len(events) = Len(calls)
            /\ \A i \in 1 .. Len(calls) :
                 /\ events[i].name = calls[i].name
                 /\ events[i].payload = calls[i].payload
                 /\ events[i].userId = jobs[j].userId
                 /\ events[i].correlationId = Cmd(j).id
            /\ Unstamped(ctx[j].room) =
                 Unstamped(ApplyInOrder(calls, LoadedRoom(j)))
    /\ pc[j] \in {"then", "resolved"} /\ NoLaterJobStarted(j) =>
         store[ctx[j].room.id] = <<ctx[j].room>>
    /\ pc[j] # "resolved" => promise[j].state # "resolved"

\* the second call, createRoom by u2, was resolved with the two events it
\* declared, and the store holds the room with the name set
ResolvedWithDeclaredEventsWitness ==
  /\ Len(jobs) = 2
  /\ Cmd(2).name = "createRoom" /\ jobs[2].userId = "u2"
  /\ promise[2].state = "resolved"
  /\ Len(promise[2].events) = 2
  /\ promise[2].events[2].name = "usernameSet"
  /\ promise[2].events[2].correlationId = 2
  /\ store["r2"] # <<>> /\ store["r2"][1].users["u2"] = "b"

(***************************************************************************)
(* C12. The roomId of every event object is the id of the room its own     *)
(* event handler returned: the i-th event of a job carries the id of the   *)
(* loaded room after the first i declared events were applied, which is    *)
(* neither command.roomId nor the id before the event when these differ.   *)
(* For a creation command on the empty room loadRoom put in place, the     *)
(* event whose handler sets the id carries this id.                        *)
(***************************************************************************)
EventRoomIdPostApply ==
  \A j \in JobIds :
    LET events == ctx[j].eventsToSend
    IN /\ \A i \in 1 .. Len(events) :
            events[i].roomId =
              ApplyInOrder(SubSeq(Declared(j), 1, i), LoadedRoom(j)).id
       /\ promise[j].state = "resolved" => promise[j].events = events
       /\ Succeeded(j) /\ loaded[j] = <<>> /\ events # <<>> =>
            /\ events[1].roomId = events[1].payload.id
            /\ events[1].roomId = ctx[j].room.id

\* a creation command without roomId ran on the empty room: its first event
\* carries the id the event handler set, not the command's roomId, which is
\* also the id of the room before the event
EventRoomIdPostApplyWitness ==
  \E j \in JobIds :
    /\ promise[j].state = "resolved"
    /\ loaded[j] = <<>>
    /\ LoadedRoom(j).id = Undefined
    /\ Cmd(j).roomId = Undefined
    /\ promise[j].events[1].name = "roomCreated"
    /\ promise[j].events[1].roomId = "r2"

JoinedRoomMerges ==
  LET payload == client.event.payload
      u == payload.userId
  IN client.event.type = "joinedRoom" /\ client.prev.userId # Undefined
       /\ u # client.prev.userId =>
       /\ client.state.users[u] = payload.users[u]
       /\ \A v \in ClientUserIds \ {u} :
            client.state.users[v] = client.prev.users[v]
       /\ client.state.userId = client.prev.userId
       /\ client.state.roomId = client.prev.roomId
       /\ client.state.stories = client.prev.stories
       /\ client.state.selectedStory = client.prev.selectedStory

\* theNewUser joined the room of myUserId, whose user object holds a
\* username the payload does not list
JoinedRoomMergesWitness ==
  /\ client.event.type = "joinedRoom"
  /\ client.prev.userId = "myUserId"
  /\ client.event.payload.userId = "theNewUser"
  /\ client.prev.users =
       [v \in ClientUserIds |->
          IF v = "myUserId" THEN <<[username |-> "tester1"]>> ELSE <<>>]
  /\ client.event.payload.users["myUserId"] = <<[username |-> Undefined]>>
  /\ client.state.users =
       [v \in ClientUserIds |->
          IF v = "myUserId" THEN <<[username |-> "tester1"]>>
          ELSE IF v = "theNewUser" THEN <<[username |-> Undefined]>>
          ELSE <<>>]

(***************************************************************************)
(* C17. leftRoom when someone else leaves: a leftRoom event whose          *)
(* payload.userId is a user u other than the client's own deletes the key  *)
(* u from users and leaves every other users entry and every other key of  *)
(* the state (roomId, userId, stories, selectedStory) as it was.           *)
(***************************************************************************)
LeftRoomDeletesExactly ==
  LET u == client.event.payload.userId
  IN client.event.type = "leftRoom" /\ u # client.prev.userId =>
       /\ client.state.users[u] = <<>>
       /\ \A v \in ClientUserIds \ {u} :
            client.state.users[v] = client.prev.users[v]
       /\ client.state.userId = client.prev.userId
       /\ client.state.roomId = client.prev.roomId
       /\ client.state.stories = client.prev.stories
       /\ client.state.selectedStory = client.prev.selectedStory

\* someoneElse left the room of myUserId, which held these two users
LeftRoomDeletesExactlyWitness ==
  /\ client.event.type = "leftRoom"
  /\ client.prev.userId = "myUserId"
  /\ client.event.payload.userId = "someoneElse"
  /\ client.prev.users =
       [v \in ClientUserIds |->
          IF v = "theNewUser" THEN <<>> ELSE <<[username |-> Undefined]>>]
  /\ client.state.users =
       [v \in ClientUserIds |->
          IF v = "myUserId" THEN <<[username |-> Undefined]>> ELSE <<>>]

(***************************************************************************)
(* C15. Every processCommand call pushes exactly one job on the queue, and *)
(* the promise of a job is settled exactly once: job.resolve or job.reject *)
(* is called once for it, never both, and a settled promise does not       *)
(* change. When every callback of the chain that is ready runs and the     *)
(* store answers every call, every job that was pushed is handed to the    *)
(* job handler and its promise is settled.                                 *)
(***************************************************************************)
SettledExactlyOnce ==
  /\ [][/\ Len(jobs') # Len(jobs) =>
             /\ Len(jobs') = Len(jobs) + 1
             /\ queue' = Append(queue, Len(jobs'))
             /\ promise'[Len(jobs')].state = "pending"
        /\ \A j \in JobIds :
             /\ Len(SettleCalls(j)') <= 1
             /\ promise[j].state # "pending" => promise'[j] = promise[j]
             /\ promise'[j].state = "resolved" <=> SettleCalls(j)' = <<"resolve">>
             /\ promise'[j].state = "rejected" <=> SettleCalls(j)' = <<"reject">>
             /\ Cardinality({i \in 1 .. Len(queue') : queue'[i] = j}) <= 1]_vars
  /\ \A j \in JobIds : pc[j] = "queued" ~> Started(j)
  /\ \A j \in JobIds : pc[j] = "queued" ~> promise[j].state # "pending"

\* two jobs were pushed, the second one while the first was not settled;
\* one was resolved and the other rejected, each by one call
SettledExactlyOnceWitness ==
  /\ Len(jobs) = 2 /\ overlapped
  /\ promise[1].state = "resolved" /\ SettleCalls(1) = <<"resolve">>
  /\ promise[2].state = "rejected" /\ SettleCalls(2) = <<"reject">>

(***************************************************************************)
(* C18. Replica consistency: an observer that starts from the room the     *)
(* pipeline of a command loaded (the empty room when there was none) and   *)
(* applies the events the promise was resolved with, in order, with the    *)
(* same event handlers, gets the room the pipeline saved, lastActivity     *)
(* apart, which the events do not carry.                                   *)
(***************************************************************************)
ReplicaConsistency ==
  \A j \in JobIds :
    promise[j].state = "resolved" =>
      LET replica == ApplyInOrder(promise[j].events, LoadedRoom(j))
      IN /\ Unstamped(replica) = Unstamped(ctx[j].room)
         /\ replica.lastActivity = LoadedRoom(j).lastActivity
         /\ NoLaterJobStarted(j) =>
              /\ store[replica.id] # <<>>
              /\ Unstamped(store[replica.id][1]) = Unstamped(replica)

\* createRoom on a room that held the name of u2 was resolved with two
\* events; replayed on the loaded room they give the room without the name
\* of u2 and with the name of u1, which is what the store holds
ReplicaConsistencyWitness ==
  \E j \in JobIds :
    /\ promise[j].state = "resolved"
    /\ Len(promise[j].events) = 2
    /\ loaded[j] # <<>>
    /\ LoadedRoom(j).users["u2"] = "b"
    /\ ApplyInOrder(promise[j].events, LoadedRoom(j)).users =
         [u \in Users |-> IF u = "u1" THEN "a" ELSE Undefined]
    /\ store["r1"][1].users =
         [u \in Users |-> IF u = "u1" THEN "a" ELSE Undefined]

NextJobOnce ==
  \A j \in JobIds :
    /\ ~Settled(j) => signals[j] = <<>>
    /\ InFlight(j) => isHandling
    /\ Settled(j) =>
         /\ Len(NextJobCalls(j)) = 1
         /\ Len(signals[j]) = 2
         /\ signals[j][1] = "nextJob"
         /\ signals[j][2] = IF promise[j].state = "resolved" THEN "resolve" ELSE "reject"
    /\ pc[j] = "resolved" => ran[j] \cap AllStages = AllStages
    /\ pc[j] = "resolved" /\ NoLaterJobStarted(j) =>
         store[ctx[j].room.id] = <<ctx[j].room>>

\* a job was resolved and a job was rejected because the store refused the
\* save; for each nextJob was called once, before the promise was settled
NextJobOnceWitness ==
  \E a, b \in JobIds :
    /\ pc[a] = "resolved" /\ signals[a] = <<"nextJob", "resolve">>
    /\ pc[b] = "rejected" /\ signals[b] = <<"nextJob", "reject">>
    /\ pending[b] = Err("StorageError", <<"saveRoom">>)

=============================================================================
